---- MODULE Spec2Model ----
(***************************************************************************)
(* Model of src/main.py: a Telegram bot that meters per-user daily token   *)
(* quotas in a SQLite table `users` and forwards messages to a text        *)
(* generation backend.  Handlers are coroutines on one event loop: a       *)
(* handler runs without interruption between two awaits, so every action   *)
(* below is the code between two suspension points.                        *)
(*                                                                         *)
(* A Python str is modelled by its length and by whether str.strip() is    *)
(* empty: the code only looks at len(text), truthiness and strip().        *)
(* None for message.from_user is the id 0 (Telegram ids are positive).     *)
(***************************************************************************)
EXTENDS Integers, Sequences, FiniteSets, TLC

\* ---------------------------------------------------------------- bounds
MaxDay == 1          \* calendar days after the first one
MaxReqs == 2         \* handle_message invocations in one behaviour

\* ------------------------------------------------------------- constants
DEFAULT_PLAN == "free"
MIN_OUTPUT_TOKENS == 20
MAX_OUTPUT_CAP == 2048
MAX_MSG == 4000
CHARS_PER_TOKEN == 4
PlanNames == {"free", "pro", "premium"}
PLANS == [p \in PlanNames |->
            [daily_tokens |-> CASE p = "free" -> 1000
                                [] p = "pro" -> 20000
                                [] p = "premium" -> 100000]]
ADMIN_IDS_SET == {3}

\* ---------------------------------------------------------------- inputs
NoUser == 0
UserIds == {1, 2}
Actors == {1, 3}
Reqs == 1..MaxReqs

Str(n, b) == [len |-> n, blank |-> b]
EmptyStr == Str(0, TRUE)
Newline == Str(1, TRUE)
Concat(s, t) == Str(s.len + t.len, s.blank /\ t.blank)

\* message.text / message.caption: present or None.  The texts cost 1 token;
\* the generated texts cost 1, 980 and 2000 tokens, which takes a free user
\* to 19 (below the output floor) and to 0, and are sent as 1, 1 and 3 parts.
Absent == [some |-> FALSE, str |-> EmptyStr]
Some(s) == [some |-> TRUE, str |-> s]
MsgTexts == {Absent, Some(Str(3, TRUE)), Some(Str(5, FALSE))}
MsgCaptions == {Absent, Some(Str(1, FALSE))}
GenTexts == {EmptyStr, Str(3920, FALSE), Str(8001, FALSE)}

\* words an admin may type after /setplan
PlanArgs == {"free", "pro", "PRO", "gold"}
ArgLists == {<<"1">>, <<"abc", "pro">>, <<"1", "free">>, <<"1", "pro">>, <<"1", "PRO">>,
             <<"2", "free">>, <<"2", "gold">>}

Max(a, b) == IF a >= b THEN a ELSE b
Min(a, b) == IF a <= b THEN a ELSE b

\* ------------------------------------------------------ database helpers
Row(plan, tokens, day) ==
    [plan |-> plan, tokens_remaining |-> tokens, last_reset |-> day]

\* INSERT OR REPLACE keyed by user_id
Upsert(db, uid, row) == [u \in DOMAIN db \cup {uid} |-> IF u = uid THEN row ELSE db[u]]

create_user(db, uid, plan, day) ==
    LET p == IF plan \in DOMAIN PLANS THEN plan ELSE DEFAULT_PLAN
    IN  Upsert(db, uid, Row(p, PLANS[p].daily_tokens, day))

\* update_user_tokens_and_plan whose UPDATE has no WHERE clause
update_all_rows(db, uid, tokens) ==
    [u \in DOMAIN db |-> [db[u] EXCEPT !.tokens_remaining = tokens]]

\* update_user_tokens_and_plan writing the default plan along with the tokens
update_resets_plan(db, uid, tokens) ==
    IF uid \in DOMAIN db
    THEN [db EXCEPT ![uid].tokens_remaining = tokens, ![uid].plan = DEFAULT_PLAN]
    ELSE db

\* UPDATE ... WHERE user_id = ? with plan=None: touches tokens_remaining only
update_user_tokens_and_plan(db, uid, tokens) ==
    IF uid \in DOMAIN db
    THEN [db EXCEPT ![uid].tokens_remaining = tokens]
    ELSE db

PlanAllowance(plan) ==
    IF plan \in DOMAIN PLANS THEN PLANS[plan].daily_tokens
    ELSE PLANS[DEFAULT_PLAN].daily_tokens

\* reset_user_daily_if_needed refilling with the default plan's allowance
reset_default_allowance(db, uid, day) ==
    LET db1 == IF uid \in DOMAIN db THEN db ELSE create_user(db, uid, DEFAULT_PLAN, day)
        row == db1[uid]
        stale == row.last_reset # day
        tokens == PLANS[DEFAULT_PLAN].daily_tokens
    IN  [db |-> IF stale
                THEN [db1 EXCEPT ![uid].tokens_remaining = tokens,
                                 ![uid].last_reset = day]
                ELSE db1,
         plan |-> row.plan,
         tokens_remaining |-> IF stale THEN tokens ELSE row.tokens_remaining,
         refilled |-> stale]

\* reset_user_daily_if_needed whose UPDATE leaves last_reset as it was
reset_keeps_anchor(db, uid, day) ==
    LET db1 == IF uid \in DOMAIN db THEN db ELSE create_user(db, uid, DEFAULT_PLAN, day)
        row == db1[uid]
        stale == row.last_reset # day
        tokens == PlanAllowance(row.plan)
    IN  [db |-> IF stale
                THEN [db1 EXCEPT ![uid].tokens_remaining = tokens]
                ELSE db1,
         plan |-> row.plan,
         tokens_remaining |-> IF stale THEN tokens ELSE row.tokens_remaining,
         refilled |-> stale]

\* reset_user_daily_if_needed calling create_user whether or not a row exists
reset_recreates(db, uid, day) ==
    LET db1 == create_user(db, uid, DEFAULT_PLAN, day)
        row == db1[uid]
        stale == row.last_reset # day
        tokens == PlanAllowance(row.plan)
    IN  [db |-> IF stale
                THEN [db1 EXCEPT ![uid].tokens_remaining = tokens,
                                 ![uid].last_reset = day]
                ELSE db1,
         plan |-> row.plan,
         tokens_remaining |-> IF stale THEN tokens ELSE row.tokens_remaining,
         refilled |-> stale]

reset_user_daily_if_needed(db, uid, day) ==
    LET db1 == IF uid \in DOMAIN db THEN db ELSE create_user(db, uid, DEFAULT_PLAN, day)
        row == db1[uid]
        stale == row.last_reset # day
        tokens == PlanAllowance(row.plan)
    IN  [db |-> IF stale
                THEN [db1 EXCEPT ![uid].tokens_remaining = tokens,
                                 ![uid].last_reset = day]
                ELSE db1,
         plan |-> row.plan,
         tokens_remaining |-> IF stale THEN tokens ELSE row.tokens_remaining,
         refilled |-> stale]

\* set_user_plan updating only the plan of a row that exists
set_user_plan_keeps_tokens(db, uid, plan, day) ==
    IF plan \notin DOMAIN PLANS
    THEN [db |-> db, ok |-> FALSE]
    ELSE IF uid \in DOMAIN db
    THEN [db |-> [db EXCEPT ![uid].plan = plan], ok |-> TRUE]
    ELSE [db |-> Upsert(db, uid, Row(plan, PLANS[plan].daily_tokens, day)), ok |-> TRUE]

set_user_plan(db, uid, plan, day) ==
    IF plan \notin DOMAIN PLANS
    THEN [db |-> db, ok |-> FALSE]
    ELSE [db |-> Upsert(db, uid, Row(plan, PLANS[plan].daily_tokens, day)), ok |-> TRUE]

\* estimate_tokens without the floor of 1 on non-empty texts
estimate_tokens_no_floor(text) ==
    IF text.len = 0 THEN 1 ELSE text.len \div CHARS_PER_TOKEN

estimate_tokens(text) ==
    IF text.len = 0 THEN 1 ELSE Max(1, text.len \div CHARS_PER_TOKEN)

\* str.lower() on the words of PlanArgs
Lower(w) == IF w = "PRO" THEN "pro" ELSE w

\* int(args[0]): 0 stands for ValueError
ParseInt(w) == CASE w = "1" -> 1 [] w = "2" -> 2 [] OTHER -> 0

\* ----------------------------------------------------------------- state
VARIABLES
    users,      \* the users table: user_id -> row, for the ids that have a row
    today,      \* value of iso_today_utc()
    pc,         \* per handle_message invocation: where the coroutine is suspended
    req,        \* per handle_message invocation: its local variables
    refills,    \* history: daily refills written per user since the last day change
    lastOp      \* history: the handler that just ran and what it replied (Silent
                \* after a day change and after the steps of handle_message that
                \* pc, req and today identify; a reply of the delivery block
                \* leaves the message it carried)

vars == <<users, today, pc, req, refills, lastOp>>

\* a message of the delivery block: the slice [lo, hi) of gen_text, or the
\* notice "Model returned no text."
Slice(lo, hi) == [notice |-> FALSE, lo |-> lo, hi |-> hi]
NoTextNotice == [notice |-> TRUE, lo |-> 0, hi |-> 0]
NoPart == Slice(0, 0)

\* op: the handler; actor: message.from_user.id; reply: what was sent back;
\* plan, tokens: the pair a balance reply shows; target, arg: the user and the
\* plan word of a /setplan that reached the plan check; part: the message a
\* reply of the delivery block carried
Op(op, actor, reply, plan, tokens, target, arg) ==
    [op |-> op, actor |-> actor, reply |-> reply, plan |-> plan,
     tokens |-> tokens, target |-> target, arg |-> arg, part |-> NoPart]

Silent == Op("none", NoUser, "none", DEFAULT_PLAN, 0, NoUser, "")

\* locals of an invocation, and its history:
\*   called      call_gemini was entered
\*   debits      number of consumption writes it made
\*   readDay     the day of its balance read
\*   clean       no refill, plan change or day change since its balance read
\*   others, othersCost   debits by other invocations of the same user since
\*               its balance read, and their total cost
\*   othersPure  each of those was itself clean and had no others
IdleReq ==
    [user_id |-> NoUser, tokens_remaining |-> 0,
     input_tokens |-> 0, max_output_tokens |-> 0, gen_text |-> EmptyStr,
     sent |-> <<>>, outcome |-> "none", called |-> FALSE, debits |-> 0,
     readDay |-> 0, clean |-> TRUE, others |-> 0, othersCost |-> 0, othersPure |-> TRUE]

InFlight(r) == pc[r] = "calling"

\* what is kept of an invocation that returned (uid: the sender, kept for the
\* returns before the backend call; locals that are not read again are cleared)
Finished(rq, uid, outcome) ==
    [IdleReq EXCEPT !.user_id = uid, !.outcome = outcome,
                    !.called = rq.called, !.debits = rq.debits]

\* history bookkeeping: another operation rewrote uid's balance while rq's
\* invocations on uid were between their read and their debit
MarkRewritten(rq, uid, changed) ==
    [r \in Reqs |-> IF changed /\ InFlight(r) /\ rq[r].user_id = uid
                    THEN [rq[r] EXCEPT !.clean = FALSE] ELSE rq[r]]

Init ==
    /\ users = [u \in {} |-> Row(DEFAULT_PLAN, 0, 0)]
    /\ today = 0
    /\ pc = [r \in Reqs |-> "idle"]
    /\ req = [r \in Reqs |-> IdleReq]
    /\ refills = [u \in UserIds |-> 0]
    /\ lastOp = Silent

\* the calendar day changes
Tick ==
    /\ today < MaxDay
    /\ today' = today + 1
    /\ refills' = [u \in UserIds |-> 0]
    /\ req' = [r \in Reqs |-> IF InFlight(r) THEN [req[r] EXCEPT !.clean = FALSE] ELSE req[r]]
    /\ lastOp' = Silent
    /\ UNCHANGED <<users, pc>>

\* /start, /help and /balance: each replies with reset_user_daily_if_needed's result
cmd_balance(from_user) ==
    IF from_user = NoUser
    THEN /\ lastOp' = Op("cmd_balance", NoUser, "Could not identify you", DEFAULT_PLAN, 0, NoUser, "")
         /\ UNCHANGED <<users, today, pc, req, refills>>
    ELSE LET res == reset_user_daily_if_needed(users, from_user, today)
         IN  /\ users' = res.db
             /\ refills' = IF res.refilled
                           THEN [refills EXCEPT ![from_user] = @ + 1] ELSE refills
             /\ req' = MarkRewritten(req, from_user, res.refilled)
             /\ lastOp' = Op("cmd_balance", from_user, "balance",
                             res.plan, res.tokens_remaining, NoUser, "")
             /\ UNCHANGED <<today, pc>>

\* cmd_setplan_args without its plan check, storing the default plan for an
\* unknown word as create_user does
cmd_setplan_args_default_plan(actor, args) ==
    LET Reply(text, target, arg) ==
            /\ lastOp' = Op("cmd_setplan", actor, text, DEFAULT_PLAN, 0, target, arg)
            /\ UNCHANGED <<users, today, pc, req, refills>>
    IN  IF Len(args) # 2 THEN Reply("Usage", NoUser, "")
        ELSE IF ParseInt(args[1]) = 0 THEN Reply("Invalid user_id", NoUser, "")
        ELSE LET target_user_id == ParseInt(args[1])
                 plan == Lower(args[2])
             IN  /\ users' = create_user(users, target_user_id, plan, today)
                 /\ req' = MarkRewritten(req, target_user_id, TRUE)
                 /\ lastOp' = Op("cmd_setplan", actor, "Set user",
                                 plan, 0, target_user_id, args[2])
                 /\ UNCHANGED <<today, pc, refills>>

\* cmd_setplan once the actor is authorized: lines 292-315
cmd_setplan_args(actor, args) ==
    LET Reply(text, target, arg) ==
            /\ lastOp' = Op("cmd_setplan", actor, text, DEFAULT_PLAN, 0, target, arg)
            /\ UNCHANGED <<users, today, pc, req, refills>>
    IN  IF Len(args) # 2 THEN Reply("Usage", NoUser, "")
        ELSE IF ParseInt(args[1]) = 0 THEN Reply("Invalid user_id", NoUser, "")
        ELSE IF Lower(args[2]) \notin DOMAIN PLANS
        THEN Reply("Unknown plan", ParseInt(args[1]), args[2])
        ELSE LET target_user_id == ParseInt(args[1])
                 plan == Lower(args[2])
                 res == set_user_plan(users, target_user_id, plan, today)
             IN  /\ users' = res.db
                 /\ req' = MarkRewritten(req, target_user_id, res.ok)
                 /\ lastOp' = Op("cmd_setplan", actor,
                                 IF res.ok THEN "Set user" ELSE "Failed to set plan",
                                 plan, 0, target_user_id, args[2])
                 /\ UNCHANGED <<today, pc, refills>>

\* cmd_setplan without the allow-list check
cmd_setplan_anyone(actor, args) ==
    LET Reply(text) ==
            /\ lastOp' = Op("cmd_setplan", actor, text, DEFAULT_PLAN, 0, NoUser, "")
            /\ UNCHANGED <<users, today, pc, req, refills>>
    IN  IF actor = NoUser THEN Reply("Could not identify you")
        ELSE cmd_setplan_args(actor, args)

cmd_setplan(actor, args) ==
    LET Reply(text) ==
            /\ lastOp' = Op("cmd_setplan", actor, text, DEFAULT_PLAN, 0, NoUser, "")
            /\ UNCHANGED <<users, today, pc, req, refills>>
    IN  IF actor = NoUser THEN Reply("Could not identify you")
        ELSE IF actor \notin ADMIN_IDS_SET THEN Reply("You are not authorized")
        ELSE cmd_setplan_args(actor, args)

\* text = (message.text or "") + ("\n" + message.caption if message.caption else "")
MessageText(text, caption) ==
    LET t == IF text.some THEN text.str ELSE EmptyStr
    IN  IF caption.some /\ caption.str.len > 0
        THEN Concat(t, Concat(Newline, caption.str)) ELSE t

\* max_output_tokens without the cap of 2048
MaxOutputTokens_uncapped(tokens_remaining, input_tokens) ==
    Max(MIN_OUTPUT_TOKENS, tokens_remaining - input_tokens)

\* max_output_tokens of line 354
MaxOutputTokens(tokens_remaining, input_tokens) ==
    Min(MAX_OUTPUT_CAP, Max(MIN_OUTPUT_TOKENS, tokens_remaining - input_tokens))

\* Authorize charging the input cost of a request it rejects
Authorize_charges_rejected(db, uid, txt, day) ==
    LET res == reset_user_daily_if_needed(db, uid, day)
        tokens_remaining == res.tokens_remaining
        input_tokens == estimate_tokens(txt)
        outcome == IF tokens_remaining <= 0 THEN "QuotaExhausted"
                   ELSE IF tokens_remaining - input_tokens < MIN_OUTPUT_TOKENS
                   THEN "InsufficientHeadroom"
                   ELSE "Authorized"
    IN  [db |-> IF outcome = "Authorized" THEN res.db
                ELSE update_user_tokens_and_plan(res.db, uid,
                                                 Max(0, tokens_remaining - input_tokens)),
         refilled |-> res.refilled,
         tokens_remaining |-> tokens_remaining,
         input_tokens |-> input_tokens,
         max_output_tokens |-> MaxOutputTokens(tokens_remaining, input_tokens),
         outcome |-> outcome]

\* lines 331-355 of handle_message: the balance read and the quota decision
Authorize(db, uid, txt, day) ==
    LET res == reset_user_daily_if_needed(db, uid, day)
        tokens_remaining == res.tokens_remaining
        input_tokens == estimate_tokens(txt)
    IN  [db |-> res.db,
         refilled |-> res.refilled,
         tokens_remaining |-> tokens_remaining,
         input_tokens |-> input_tokens,
         max_output_tokens |-> MaxOutputTokens(tokens_remaining, input_tokens),
         outcome |-> IF tokens_remaining <= 0 THEN "QuotaExhausted"
                     ELSE IF tokens_remaining - input_tokens < MIN_OUTPUT_TOKENS
                     THEN "InsufficientHeadroom"
                     ELSE "Authorized"]

\* handle_message up to the await of the backend's answer: lines 322-366 and
\* call_gemini's lines 187-202 (a rejection replies and returns).  Nothing is
\* read or written between the await of send_chat_action, whose failure is
\* ignored, and the post, so the two awaits are one suspension.
handle_message(r, from_user, text, caption) ==
    /\ pc[r] = "idle"
    /\ \A q \in Reqs : q < r => pc[q] # "idle"
    /\ lastOp' = Silent
    /\ UNCHANGED today
    /\ LET txt == MessageText(text, caption)
       IN  IF from_user = NoUser
           THEN /\ pc' = [pc EXCEPT ![r] = "done"]
                /\ req' = [req EXCEPT ![r] = Finished(req[r], NoUser, "NoSender")]
                /\ UNCHANGED <<users, refills>>
           ELSE IF txt.blank
           THEN /\ pc' = [pc EXCEPT ![r] = "done"]
                /\ req' = [req EXCEPT ![r] = Finished(req[r], from_user, "NoText")]
                /\ UNCHANGED <<users, refills>>
           ELSE LET auth == Authorize(users, from_user, txt, today)
                    rq == MarkRewritten(req, from_user, auth.refilled)
               IN  /\ users' = auth.db
                   /\ refills' = IF auth.refilled
                                 THEN [refills EXCEPT ![from_user] = @ + 1] ELSE refills
                   /\ IF auth.outcome # "Authorized"
                      THEN /\ pc' = [pc EXCEPT ![r] = "done"]
                           /\ req' = [rq EXCEPT ![r] = Finished(req[r], from_user, auth.outcome)]
                      ELSE /\ pc' = [pc EXCEPT ![r] = "calling"]
                           /\ req' = [rq EXCEPT ![r] =
                                  [req[r] EXCEPT
                                     !.user_id = from_user,
                                     !.tokens_remaining = auth.tokens_remaining,
                                     !.input_tokens = auth.input_tokens,
                                     !.max_output_tokens = auth.max_output_tokens,
                                     !.called = TRUE,
                                     !.readDay = today]]

\* call_gemini raised (status # 200, timeout, transport error): lines 367-370
gemini_fails(r) ==
    /\ pc[r] = "calling"
    /\ pc' = [pc EXCEPT ![r] = "done"]
    /\ req' = [req EXCEPT ![r] = Finished(req[r], NoUser, "BackendFailure")]
    /\ lastOp' = Silent
    /\ UNCHANGED <<users, today, refills>>

\* NumParts leaving out a last part shorter than MAX_MSG
NumParts_floor(gen_text) ==
    IF gen_text.blank \/ gen_text.len <= MAX_MSG THEN 1
    ELSE gen_text.len \div MAX_MSG

\* the messages that lines 384-395 send: the notice when gen_text.strip() is
\* empty, else gen_text when it fits, else
\* [gen_text[i:i+MAX_MSG] for i in range(0, len(gen_text), MAX_MSG)]
NumParts(gen_text) ==
    IF gen_text.blank \/ gen_text.len <= MAX_MSG THEN 1
    ELSE (gen_text.len + MAX_MSG - 1) \div MAX_MSG

Part(gen_text, i) ==
    IF gen_text.blank THEN NoTextNotice
    ELSE IF gen_text.len <= MAX_MSG THEN Slice(0, gen_text.len)
    ELSE Slice((i - 1) * MAX_MSG, Min(gen_text.len, i * MAX_MSG))

\* new_remaining without the floor at 0
NewRemaining_unclamped(tokens_remaining, total_used) == tokens_remaining - total_used

\* new_remaining of line 378, from the balance read at line 332
NewRemaining(tokens_remaining, total_used) == Max(0, tokens_remaining - total_used)

\* gemini_returns without the write of line 379
gemini_returns_no_debit(r, gen_text) ==
    /\ pc[r] = "calling"
    /\ req' = [req EXCEPT ![r] = [IdleReq EXCEPT !.gen_text = gen_text,
                                                 !.called = req[r].called,
                                                 !.debits = req[r].debits]]
    /\ pc' = [pc EXCEPT ![r] = "replying"]
    /\ lastOp' = Silent
    /\ UNCHANGED <<users, today, refills>>

\* call_gemini returned gen_text: lines 372-380, up to the first reply's await
gemini_returns(r, gen_text) ==
    /\ pc[r] = "calling"
    /\ LET uid == req[r].user_id
           output_tokens == estimate_tokens(gen_text)
           total_used == req[r].input_tokens + output_tokens
           new_remaining == NewRemaining(req[r].tokens_remaining, total_used)
       IN  /\ users' = update_user_tokens_and_plan(users, uid, new_remaining)
           /\ req' = [q \in Reqs |->
                        IF q = r
                        THEN [IdleReq EXCEPT !.gen_text = gen_text,
                                             !.called = req[r].called,
                                             !.debits = req[r].debits + 1]
                        ELSE IF InFlight(q) /\ req[q].user_id = uid
                        THEN [req[q] EXCEPT
                                !.others = @ + 1,
                                !.othersCost = @ + total_used,
                                !.othersPure = @ /\ req[r].clean /\ req[r].others = 0]
                        ELSE req[q]]
           /\ pc' = [pc EXCEPT ![r] = "replying"]
           /\ lastOp' = Silent
    /\ UNCHANGED <<today, refills>>

\* reply_sent starting over with the first part once the last one is sent
reply_sent_restarts(r) ==
    /\ pc[r] = "replying"
    /\ LET n == Len(req[r].sent) + 1
       IN  /\ req' = [req EXCEPT ![r].sent =
                         IF n = NumParts(req[r].gen_text) THEN <<>>
                         ELSE Append(@, Part(req[r].gen_text, n))]
           /\ lastOp' = [Op("handle_message", NoUser, "generated", DEFAULT_PLAN, 0, NoUser, "")
                            EXCEPT !.part = Part(req[r].gen_text, n)]
    /\ UNCHANGED <<users, today, pc, refills>>

\* one message.reply of lines 384-395 went through
reply_sent(r) ==
    /\ pc[r] = "replying"
    /\ LET n == Len(req[r].sent) + 1
           rq == [req[r] EXCEPT !.sent = Append(@, Part(req[r].gen_text, n))]
       IN  /\ IF n = NumParts(req[r].gen_text)
              THEN /\ req' = [req EXCEPT ![r] = Finished(rq, NoUser, "Responded")]
                   /\ pc' = [pc EXCEPT ![r] = "done"]
              ELSE /\ req' = [req EXCEPT ![r] = rq]
                   /\ pc' = pc
           /\ lastOp' = [Op("handle_message", NoUser, "generated", DEFAULT_PLAN, 0, NoUser, "")
                            EXCEPT !.part = Part(req[r].gen_text, n)]
    /\ UNCHANGED <<users, today, refills>>

\* a message.reply of lines 384-395 raised: lines 396-398
reply_fails(r) ==
    /\ pc[r] = "replying"
    /\ pc' = [pc EXCEPT ![r] = "done"]
    /\ req' = [req EXCEPT ![r] = Finished(req[r], NoUser, "DeliveryFailed")]
    /\ lastOp' = Silent
    /\ UNCHANGED <<users, today, refills>>

Next ==
    \/ Tick
    \/ \E u \in UserIds : cmd_balance(u)
    \/ \E a \in Actors, args \in ArgLists : cmd_setplan(a, args)
    \/ \E r \in Reqs, u \in UserIds \cup {NoUser}, t \in MsgTexts, c \in MsgCaptions :
          handle_message(r, u, t, c)
    \/ \E r \in Reqs : gemini_fails(r)
    \/ \E r \in Reqs, g \in GenTexts : gemini_returns(r, g)
    \/ \E r \in Reqs : reply_sent(r)
    \/ \E r \in Reqs : reply_fails(r)

Spec == Init /\ [][Next]_vars

\* ------------------------------------------------- the delivery block alone
\* generated texts around the multiples of MAX_MSG, with and without a
\* non-whitespace character
DeliveryLens == {1, 3999, 4000, 4001, 8000, 8001, 12001}
DeliveryTexts == {EmptyStr} \cup {Str(n, b) : n \in DeliveryLens, b \in BOOLEAN}

\* the locals of an invocation whose backend call returned g and whose debit
\* is written
Answered(g) == [IdleReq EXCEPT !.gen_text = g, !.called = TRUE, !.debits = 1]

\* user 1, on the default plan, sent MaxReqs messages of one token before the
\* backend answered any of them; invocation w debited last
InitDelivery ==
    /\ today = 0
    /\ pc = [r \in Reqs |-> "replying"]
    /\ refills = [u \in UserIds |-> 0]
    /\ lastOp = Silent
    /\ \E g \in [Reqs -> DeliveryTexts], w \in Reqs :
          /\ req = [r \in Reqs |-> Answered(g[r])]
          /\ users = update_user_tokens_and_plan(
                        create_user([u \in {} |-> Row(DEFAULT_PLAN, 0, 0)], 1, DEFAULT_PLAN, 0),
                        1,
                        NewRemaining(PLANS[DEFAULT_PLAN].daily_tokens,
                                     1 + estimate_tokens(g[w])))

NextDelivery ==
    \/ \E r \in Reqs : reply_sent(r)
    \/ \E r \in Reqs : reply_fails(r)

SpecDelivery == InitDelivery /\ [][NextDelivery]_vars

\* ------------------------------------------------- the estimator alone
\* texts of 0 to 4000 characters, with and without a non-whitespace character
EstimateLens == {1, 3, 4, 7, 8, 9, 40, 4000}
EstimateTexts == {EmptyStr} \cup {Str(n, b) : n \in EstimateLens, b \in BOOLEAN}

\* the admin put user 1 on plan pro, user 1 sent MaxReqs messages of five
\* characters, and all of them wait for the backend
InitEstimate ==
    LET auth == Authorize(set_user_plan([u \in {} |-> Row(DEFAULT_PLAN, 0, 0)], 1, "pro", 0).db,
                          1, Str(5, FALSE), 0)
    IN  /\ today = 0
        /\ users = auth.db
        /\ pc = [r \in Reqs |-> "calling"]
        /\ req = [r \in Reqs |->
                    [IdleReq EXCEPT !.user_id = 1,
                                    !.tokens_remaining = auth.tokens_remaining,
                                    !.input_tokens = auth.input_tokens,
                                    !.max_output_tokens = auth.max_output_tokens,
                                    !.called = TRUE]]
        /\ refills = [u \in UserIds |-> 0]
        /\ lastOp = Silent

\* the backend answers with a text of EstimateTexts, which line 373 estimates
NextEstimate == \E r \in Reqs, g \in EstimateTexts : gemini_returns(r, g)

SpecEstimate == InitEstimate /\ [][NextEstimate]_vars

\* ------------------------------------------------------------- scheduling
\* The event loop resumes a coroutine once what it awaits completes: the
\* backend call of an invocation ends (session.post has timeout=60: an
\* answer, an error status or a timeout), and each message.reply ends (it went
\* through or it raised).
Fairness ==
    \A r \in Reqs :
        /\ WF_vars(gemini_fails(r) \/ \E g \in GenTexts : gemini_returns(r, g))
        /\ WF_vars(reply_sent(r) \/ reply_fails(r))

SpecLive == Init /\ [][Next]_vars /\ Fairness

\* ---------------------------------------------------------------- claims
\* steps of handle_message invocation r, told by its pc
Debiting(r) == pc[r] = "calling" /\ pc'[r] = "replying"
Failing(r) == pc[r] = "calling" /\ pc'[r] = "done"
Starting(r) == pc[r] = "idle" /\ pc'[r] # "idle"
Rejections == {"QuotaExhausted", "InsufficientHeadroom"}

\* total_used of the debit step of r (lines 373-374)
TotalUsed(r) == req[r].input_tokens + estimate_tokens(req'[r].gen_text)

\* C1: in every reachable state every stored row has
\* 0 <= tokens_remaining <= daily allowance of its stored plan.
C1_RemainingWithinAllowance ==
    \A u \in DOMAIN users :
        /\ 0 <= users[u].tokens_remaining
        /\ users[u].tokens_remaining <= PLANS[users[u].plan].daily_tokens

\* C2: no lost updates.  When invocation r debits after exactly one other
\* invocation of the same user debited since r's balance read (the two
\* overlap), on the day of the read and with no refill or plan change in
\* between, the stored remaining becomes
\* max(0, initial_remaining - cost_1 - cost_2).
C2_NoLostUpdate ==
    [][\A r \in Reqs :
          (/\ Debiting(r)
           /\ req[r].clean /\ req[r].readDay = today
           /\ req[r].others = 1 /\ req[r].othersPure)
          => users'[req[r].user_id].tokens_remaining =
                Max(0, req[r].tokens_remaining - req[r].othersCost - TotalUsed(r))]_vars

\* C3: when the backend call of an authorized request fails, the user is
\* debited the input cost: remaining becomes max(0, remaining - input_cost).
C3_FailureChargesInput ==
    [][\A r \in Reqs :
          Failing(r)
          => users'[req[r].user_id].tokens_remaining =
                Max(0, users[req[r].user_id].tokens_remaining - req[r].input_tokens)]_vars

\* C4: when the day changed between r's balance read and r's debit and the row
\* was already reset in the new day, the debit is applied to the reset balance:
\* remaining becomes max(0, stored remaining - total_used).
C4_DebitOnFreshBalance ==
    [][\A r \in Reqs :
          (/\ Debiting(r)
           /\ req[r].readDay < today
           /\ users[req[r].user_id].last_reset = today)
          => users'[req[r].user_id].tokens_remaining =
                Max(0, users[req[r].user_id].tokens_remaining - TotalUsed(r))]_vars

\* C5: a request rejected as QuotaExhausted or InsufficientHeadroom on a fresh
\* row issues no backend call and leaves the table unchanged.
C5_RejectionCostsNothing ==
    [][\A r \in Reqs :
          (/\ Starting(r)
           /\ req'[r].outcome \in Rejections
           /\ req'[r].user_id \in DOMAIN users
           /\ users[req'[r].user_id].last_reset = today)
          => /\ users' = users
             /\ ~req'[r].called
             /\ pc'[r] = "done"]_vars

C5_Witness ==
    \E r \in Reqs :
        /\ pc[r] = "done" /\ req[r].outcome = "InsufficientHeadroom"
        /\ ~req[r].called
        /\ req[r].user_id \in DOMAIN users
        /\ users[req[r].user_id].last_reset = today
        /\ users[req[r].user_id].tokens_remaining = 19

\* a step in which reset_user_daily_if_needed ran for user u: /start, /help,
\* /balance, or handle_message past its text check
EnsureFreshStep(u) ==
    \/ lastOp'.op = "cmd_balance" /\ lastOp'.actor = u
    \/ \E r \in Reqs : Starting(r) /\ req'[r].user_id = u /\ req'[r].outcome # "NoText"

\* C6: daily rollover.  reset_user_daily_if_needed on a row whose last_reset is
\* before today sets tokens_remaining to the plan's allowance and last_reset
\* to today, and returns that allowance, whatever the remaining was.
C6_DailyRollover ==
    [][\A u \in DOMAIN users :
          (EnsureFreshStep(u) /\ users[u].last_reset < today)
          => /\ users'[u] = Row(users[u].plan, PLANS[users[u].plan].daily_tokens, today)
             /\ lastOp'.op = "cmd_balance"
                  => /\ lastOp'.tokens = PLANS[users[u].plan].daily_tokens
                     /\ lastOp'.plan = users[u].plan
             /\ \A r \in Reqs :
                  (Starting(r) /\ req'[r].user_id = u /\ pc'[r] = "calling")
                  => req'[r].tokens_remaining = PLANS[users[u].plan].daily_tokens]_vars

C6_Witness ==
    /\ today = 1
    /\ lastOp.op = "cmd_balance" /\ lastOp.actor = 1
    /\ refills[1] = 1
    /\ users[1] = Row("pro", 20000, 1)
    /\ lastOp.tokens = 20000

\* C7: a reset_user_daily_if_needed on a row already anchored to today leaves
\* the row unchanged, and the refill is written at most once per user per day.
C7_ResetOncePerDay ==
    /\ [][\A u \in DOMAIN users :
            (EnsureFreshStep(u) /\ users[u].last_reset = today) => users'[u] = users[u]]_vars
    /\ [](\A u \in UserIds : refills[u] <= 1)

C7_Witness ==
    /\ lastOp.op = "cmd_balance" /\ lastOp.actor = 1
    /\ refills[1] = 1
    /\ users[1].last_reset = today
    /\ lastOp.tokens = users[1].tokens_remaining
    /\ lastOp.tokens < PLANS[users[1].plan].daily_tokens

\* C8: right after a successful set_user_plan(user, plan) the row of user has
\* that plan, the plan's full allowance and last_reset = today.
C8_PlanChangeGrantsAllowance ==
    (lastOp.op = "cmd_setplan" /\ lastOp.reply = "Set user")
    => /\ lastOp.target \in DOMAIN users
       /\ users[lastOp.target] = Row(lastOp.plan, PLANS[lastOp.plan].daily_tokens, today)

C8_Witness ==
    /\ lastOp.op = "cmd_setplan" /\ lastOp.reply = "Set user"
    /\ lastOp.target = 1 /\ lastOp.plan = "pro"
    /\ users[1] = Row("pro", 20000, today)
    /\ today = 1
    /\ \E r \in Reqs : pc[r] = "replying"

\* C9 as stated: a /setplan whose plan word is outside {free, pro, premium}
\* is answered with the unknown-plan error and changes no row.
C9_UnknownPlanWord ==
    [][(lastOp'.op = "cmd_setplan" /\ lastOp'.arg # "" /\ lastOp'.arg \notin PlanNames)
       => (lastOp'.reply = "Unknown plan" /\ users' = users)]_vars

\* C9 amended: a /setplan whose plan word, lower-cased, is outside
\* {free, pro, premium} is answered with the unknown-plan error and changes no
\* row; set_user_plan itself rejects every name outside the set.
C9_UnknownPlanLowered ==
    /\ [][(lastOp'.op = "cmd_setplan" /\ lastOp'.arg # ""
           /\ Lower(lastOp'.arg) \notin PlanNames)
          => (lastOp'.reply = "Unknown plan" /\ users' = users)]_vars
    /\ [](\A u \in UserIds, w \in PlanArgs :
            w \notin PlanNames
            => (~set_user_plan(users, u, w, today).ok
                /\ set_user_plan(users, u, w, today).db = users))

C9_Witness ==
    /\ lastOp.op = "cmd_setplan" /\ lastOp.reply = "Unknown plan"
    /\ lastOp.arg = "gold" /\ lastOp.target = 2
    /\ 2 \notin DOMAIN users
    /\ 1 \in DOMAIN users

\* C10: a /setplan from an actor outside ADMIN_IDS_SET changes no row.
C10_OnlyAdminsSetPlans ==
    [][(lastOp'.op = "cmd_setplan" /\ lastOp'.actor \notin ADMIN_IDS_SET)
       => users' = users]_vars

C10_Witness ==
    /\ lastOp.op = "cmd_setplan" /\ lastOp.actor = 1
    /\ lastOp.reply = "You are not authorized"
    /\ DOMAIN users = {1}
    /\ users[1].plan = "free"

\* C11: when an authorized invocation r debits on the day of its balance read
\* and nothing rewrote the user's row since that read (no refill, plan change
\* or other debit), the stored balance is still the one read at authorization
\* and becomes max(0, it - estimate_tokens(input) - estimate_tokens(output)).
C11_DebitIsInputPlusOutput ==
    [][\A r \in Reqs :
          (/\ Debiting(r)
           /\ req[r].clean /\ req[r].readDay = today /\ req[r].others = 0)
          => /\ users[req[r].user_id].tokens_remaining = req[r].tokens_remaining
             /\ users'[req[r].user_id].tokens_remaining =
                   Max(0, req[r].tokens_remaining - req[r].input_tokens
                          - estimate_tokens(req'[r].gen_text))]_vars

\* the only invocation so far debited a fresh free user for 1 + 2000 tokens
C11_Witness ==
    /\ pc[1] = "replying" /\ pc[2] = "idle"
    /\ req[1].gen_text = Str(8001, FALSE) /\ req[1].debits = 1
    /\ today = 0
    /\ users = [u \in {1} |-> Row("free", 0, 0)]

Clamp(x, lo, hi) == IF x < lo THEN lo ELSE IF x > hi THEN hi ELSE x

\* C12: while an authorized invocation waits for the backend, the ceiling it
\* passed is clamp(remaining - input_cost, MIN_OUTPUT_TOKENS, 2048), lies
\* between MIN_OUTPUT_TOKENS and 2048, is at most remaining - input_cost, and
\* the balance it read satisfies remaining > 0 and
\* remaining - input_cost >= MIN_OUTPUT_TOKENS.
C12_OutputCeiling ==
    \A r \in Reqs :
        pc[r] = "calling"
        => LET remaining == req[r].tokens_remaining
               input_cost == req[r].input_tokens
               ceiling == req[r].max_output_tokens
           IN  /\ ceiling = Clamp(remaining - input_cost, MIN_OUTPUT_TOKENS, MAX_OUTPUT_CAP)
               /\ MIN_OUTPUT_TOKENS <= ceiling /\ ceiling <= MAX_OUTPUT_CAP
               /\ ceiling <= remaining - input_cost
               /\ remaining > 0
               /\ remaining - input_cost >= MIN_OUTPUT_TOKENS

\* one invocation was given the headroom of a free user as its ceiling, a
\* second the cap
C12_Witness ==
    /\ pc[1] = "calling" /\ req[1].max_output_tokens = 999
    /\ pc[2] = "calling" /\ req[2].max_output_tokens = MAX_OUTPUT_CAP
    /\ req[2].tokens_remaining = 20000

\* C13: lazy creation is idempotent.  A reset_user_daily_if_needed for a user
\* without a row adds exactly that user's row, with the default plan, its full
\* allowance and last_reset = today; for a user with a row it adds no row,
\* keeps the plan, and on the day of last_reset keeps the whole row, whether
\* or not invocations of that user are waiting for the backend.  No other row
\* changes either way.
C13_LazyCreationIdempotent ==
    [][\A u \in UserIds :
          EnsureFreshStep(u)
          => /\ DOMAIN users' = DOMAIN users \cup {u}
             /\ \A v \in DOMAIN users : v # u => users'[v] = users[v]
             /\ u \notin DOMAIN users
                  => users'[u] = Row(DEFAULT_PLAN, PLANS[DEFAULT_PLAN].daily_tokens, today)
             /\ u \in DOMAIN users
                  => /\ users'[u].plan = users[u].plan
                     /\ users[u].last_reset = today => users'[u] = users[u]]_vars

\* /balance of user 1 while an invocation of user 1 waits for the backend and
\* an earlier one has debited: the row keeps its plan and its remaining
C13_Witness ==
    /\ lastOp.op = "cmd_balance" /\ lastOp.actor = 1
    /\ pc[2] = "calling" /\ req[2].user_id = 1
    /\ pc[1] = "done" /\ req[1].debits = 1
    /\ DOMAIN users = {1}
    /\ users[1] = Row("pro", 19019, today)
    /\ lastOp.tokens = 19019

\* a step of r's delivery (lines 382-398): a part was sent or a reply raised
Delivering(r) ==
    /\ pc[r] = "replying"
    /\ pc'[r] = "done" \/ req'[r].sent # req[r].sent

\* C14: the consumption write runs exactly once per request.  An invocation
\* that got the backend's answer has made exactly one debit write, however
\* many parts it sends and whether or not a reply fails; one that did not get
\* an answer has made none; and no step of the delivery writes to the table.
C14_DebitExactlyOnce ==
    /\ [](\A r \in Reqs :
            /\ (pc[r] = "replying" \/ req[r].outcome \in {"Responded", "DeliveryFailed"})
                 => req[r].debits = 1
            /\ (pc[r] \in {"idle", "calling"}
                \/ req[r].outcome \notin {"none", "Responded", "DeliveryFailed"})
                 => req[r].debits = 0)
    /\ [][\A r \in Reqs :
            Delivering(r) => (users' = users /\ req'[r].debits = req[r].debits)]_vars

\* one invocation has sent two of its three parts, another's reply failed
C14_Witness ==
    /\ pc[1] = "replying" /\ NumParts(req[1].gen_text) = 3 /\ Len(req[1].sent) = 2
    /\ req[1].debits = 1
    /\ pc[2] = "done" /\ req[2].outcome = "DeliveryFailed" /\ req[2].debits = 1

\* a reply of r's delivery block went through, completing the delivery or not
Sending(r) ==
    /\ pc[r] = "replying"
    /\ \/ pc'[r] = "replying" /\ req'[r].sent # req[r].sent
       \/ req'[r].outcome = "Responded"
Completing(r) == req'[r].outcome = "Responded"

\* the messages r has sent once this step's reply is through
SentSoFar(r) == Append(req[r].sent, lastOp'.part)

\* all is a run of slices of 1..MAX_MSG characters each, starting at offset
\* 0, each starting where the one before ends, and ending at len exactly when
\* the delivery is complete
Chunked(all, len, complete) ==
    /\ \A i \in 1..Len(all) :
          /\ ~all[i].notice
          /\ 1 <= all[i].hi - all[i].lo /\ all[i].hi - all[i].lo <= 4000
    /\ all[1].lo = 0
    /\ \A i \in 1..(Len(all) - 1) : all[i + 1].lo = all[i].hi
    /\ IF complete THEN all[Len(all)].hi = len ELSE all[Len(all)].hi < len

OutputCharged(r) ==
    req[r].tokens_remaining - req[r].input_tokens
    - users'[req[r].user_id].tokens_remaining

\* C16 as stated: the cost of a text is a function of its length only, is at
\* least 1, and is exactly 1 for the empty text and for every whitespace-only
\* text of any length.
C16_EstimateBlankIsOne ==
    [][\A r \in Reqs :
          Debiting(r)
          => LET g == req'[r].gen_text
             IN  /\ OutputCharged(r) = estimate_tokens(g)
                 /\ \A t \in EstimateTexts :
                       t.len = g.len => estimate_tokens(t) = OutputCharged(r)
                 /\ OutputCharged(r) >= 1
                 /\ g.len = 0 => OutputCharged(r) = 1
                 /\ g.blank => OutputCharged(r) = 1]_vars

\* C16 amended: the cost of a text is a function of its length only,
\* max(1, len div 4): at least 1, exactly 1 for the empty text and for every
\* text shorter than 8 characters, and len div 4 for a text of 8 characters
\* or more, whitespace-only or not.
C16_EstimateByLength ==
    [][\A r \in Reqs :
          Debiting(r)
          => LET g == req'[r].gen_text
             IN  /\ OutputCharged(r) = estimate_tokens(g)
                 /\ \A t \in EstimateTexts :
                       t.len = g.len => estimate_tokens(t) = OutputCharged(r)
                 /\ OutputCharged(r) >= 1
                 /\ g.len < 8 => OutputCharged(r) = 1
                 /\ g.len >= 8 => OutputCharged(r) = g.len \div 4]_vars

\* a whitespace-only answer of 40 characters was charged 10 tokens on top of
\* the input's 1, an answer of 3 characters 1 token
C16_Witness ==
    /\ pc[1] = "replying" /\ req[1].gen_text = Str(40, TRUE)
    /\ pc[2] = "replying" /\ req[2].gen_text = Str(3, FALSE)
    /\ users[1].tokens_remaining \in {20000 - 1 - 10, 20000 - 1 - 1}

\* C17: a plan change is atomic with respect to in-flight requests.  When
\* set_user_plan rewrote the user's row between r's balance read and r's debit
\* (the row was rewritten on the day of the read, which only set_user_plan
\* does) and the row still holds the granted allowance, then after r's debit
\* the row has the new plan and remaining = max(0, new allowance - total_used).
C17_PlanChangeAtomic ==
    [][\A r \in Reqs :
          (/\ Debiting(r)
           /\ ~req[r].clean /\ req[r].readDay = today /\ req[r].others = 0
           /\ users[req[r].user_id].last_reset = today
           /\ users[req[r].user_id].tokens_remaining =
                 PLANS[users[req[r].user_id].plan].daily_tokens)
          => /\ users'[req[r].user_id].plan = users[req[r].user_id].plan
             /\ users'[req[r].user_id].tokens_remaining =
                   Max(0, PLANS[users[req[r].user_id].plan].daily_tokens - TotalUsed(r))]_vars

\* C18: every stored plan is one of free, pro, premium; the plan of a row
\* changes only in a /setplan of an allow-listed actor that succeeded for that
\* user, to the plan it names; and a row is created with the default plan
\* unless such a /setplan creates it.
C18_PlanClosedAndAdminOnly ==
    /\ [](\A u \in DOMAIN users : users[u].plan \in {"free", "pro", "premium"})
    /\ [][\A u \in DOMAIN users' :
            LET bySetplan == /\ lastOp'.op = "cmd_setplan" /\ lastOp'.reply = "Set user"
                             /\ lastOp'.actor \in ADMIN_IDS_SET
                             /\ lastOp'.target = u
                             /\ users'[u].plan = lastOp'.plan
            IN  /\ (u \in DOMAIN users /\ users'[u].plan # users[u].plan) => bySetplan
                /\ (u \notin DOMAIN users /\ users'[u].plan # DEFAULT_PLAN) => bySetplan]_vars

\* user 1, put on plan pro by the admin, keeps it through a day change, the
\* refill of the new day and a debit
C18_Witness ==
    /\ today = 1
    /\ 1 \in DOMAIN users
    /\ users[1].plan = "pro" /\ users[1].last_reset = 1
    /\ users[1].tokens_remaining = 20000 - 1 - 980
    /\ refills[1] = 1
    /\ \E r \in Reqs : pc[r] = "replying" /\ req[r].debits = 1

\* invocation r got a message with a sender and a non-blank text
Accepted(r) ==
    \/ pc[r] \in {"calling", "replying"}
    \/ pc[r] = "done" /\ req[r].outcome \notin {"NoSender", "NoText"}

C20_DebitFrame ==
    [][\A r \in Reqs :
          Debiting(r)
          => /\ DOMAIN users' = DOMAIN users
             /\ req[r].user_id \in DOMAIN users
             /\ users'[req[r].user_id].plan = users[req[r].user_id].plan
             /\ users'[req[r].user_id].last_reset = users[req[r].user_id].last_reset
             /\ \A v \in DOMAIN users : v # req[r].user_id => users'[v] = users[v]]_vars

\* invocation 1 debited user 1 while invocation 2, of user 2, waits for the
\* backend: user 2's row is as its balance read left it
C20_Witness ==
    /\ pc[1] = "replying" /\ req[1].debits = 1
    /\ pc[2] = "calling" /\ req[2].user_id = 2 /\ req[2].clean /\ req[2].others = 0
    /\ DOMAIN users = {1, 2}
    /\ users[1] = Row("pro", 20000 - 1 - 2000, today)
    /\ users[2] = Row("free", 1000, today)

====
